---------------------------- MODULE Spec2Model ----------------------------
(***************************************************************************)
(* Route assembly of the employee survey backend.                          *)
(*                                                                         *)
(* State: the Project collection (src/unnamed/part_003, ProjectSchema):   *)
(* per project the assigned employees and the two-level ordered           *)
(* collection waypoints (a list of paths, each a list of waypoints).      *)
(* Operations: the handlers of src/controllers/projectController.js.      *)
(*                                                                         *)
(* Spec     : every handler runs to completion before the next starts.    *)
(* SpecConc : addWaypoint is split at its awaits (findOne / save), so     *)
(*            several submissions may have read a project before any of   *)
(*            them persists.                                               *)
(***************************************************************************)
EXTENDS Integers, Sequences, FiniteSets, TLC

\* ------------------------------------------------------------- bounds
\* Largest number of waypoints stored over all projects.
MaxWaypoints == 3
\* Largest value of the wall clock read by `new Date()`.
MaxTime == 2

\* Project ids, users with role "employee", request slots of the server.
ProjectIds == {"p1", "p2"}
Employees == {"e1", "e2"}
Requests == {"r1", "r2"}

\* Values a client can send for isStart / isEnd: "true" stands for the string
\* "true" and the boolean true, "false" for any other value that is present,
\* "null" for a missing field.
RawFlags == {"true", "false", "null"}

\* Request bodies: the two raw flags, and whether every other required field
\* is present and well-formed (the checks of lines 243-288 pass).
Bodies ==
    {[isStart |-> s, isEnd |-> t, complete |-> TRUE] :
        s \in {"true", "false"}, t \in {"true", "false"}}
    \cup {[isStart |-> "null", isEnd |-> "false", complete |-> TRUE],
          [isStart |-> "true", isEnd |-> "null", complete |-> TRUE],
          [isStart |-> "true", isEnd |-> "false", complete |-> FALSE]}

\* The waypoint submissions: any employee on any project with any body, and
\* one on a project id that names no project ("p0").
Submissions ==
    (ProjectIds \X Employees \X Bodies)
    \cup {<<"p0", "e1", [isStart |-> "true", isEnd |-> "false", complete |-> TRUE]>>}

\* The assignments an admin asks for: both employees on p1 and e1 on p2 (e2 is
\* never assigned to p2), and the calls answered 400 or 404: a missing empId
\* (""), an empId that names no user with role employee ("e0"), an unknown
\* project ("p0").
Assignments ==
    {<<"p1", "e1">>, <<"p1", "e2">>, <<"p2", "e1">>,
     <<"p1", "">>, <<"p1", "e0">>, <<"p0", "e1">>}

VARIABLES
    employees,  \* employees[p]: set of employees assigned to project p
    waypoints,  \* waypoints[p]: sequence of paths, each a sequence of waypoints
    now,        \* the wall clock
    pending,    \* pending[r]: the save a request slot has issued (SpecConc only)
    accepted,   \* accepted[p][e]: kinds of the submissions answered 201, in order
    last        \* the last waypoint submission handled and its response

vars == <<employees, waypoints, now, pending, accepted, last>>

\* ------------------------------------------------------------ helpers
RECURSIVE SumLen(_)
SumLen(paths) ==
    IF paths = <<>> THEN 0 ELSE Len(Head(paths)) + SumLen(Tail(paths))

RECURSIVE SumOver(_, _)
SumOver(f, S) ==
    IF S = {} THEN 0
    ELSE LET x == CHOOSE y \in S : TRUE IN f[x] + SumOver(f, S \ {x})

\* Waypoints stored, plus those of saves still in flight.
TotalWaypoints ==
    SumOver([p \in ProjectIds |-> SumLen(waypoints[p])], ProjectIds)
    + Cardinality({r \in Requests : pending[r].pc = "saving"})

\* ------------------------------------------------- addWaypoint, pieces
\* lines 215-216: parsedIsStart = isStart === "true" || isStart === true
ParseFlag(raw) == raw = "true"

\* Waypoint whose pathOwner is left unset.
Waypoint_OwnerUnset(employeeId, isStart, isEnd, timestamp) ==
    [createdBy |-> employeeId, pathOwner |-> "",
     isStart |-> isStart, isEnd |-> isEnd, timestamp |-> timestamp]

\* lines 290-307: the waypoint built from the request
Waypoint(employeeId, isStart, isEnd, timestamp) ==
    [createdBy |-> employeeId, pathOwner |-> employeeId,
     isStart |-> isStart, isEnd |-> isEnd, timestamp |-> timestamp]

\* UserPaths without the filter on pathOwner.
UserPaths_AllOwners(wps, employeeId) == [i \in 1..Len(wps) |-> i]

\* lines 312-314: indices of the paths whose first waypoint is owned by the
\* employee, in collection order.
UserPaths(wps, employeeId) ==
    SelectSeq([i \in 1..Len(wps) |-> i],
              LAMBDA i : wps[i][1].pathOwner = employeeId)

\* LastUserPath taking userPaths[0] in place of the last element.
LastUserPath_First(wps, employeeId) ==
    LET userPaths == UserPaths(wps, employeeId)
    IN  IF Len(userPaths) = 0 THEN 0 ELSE userPaths[1]

\* LastUserPath taking the project's last path, whoever owns it.
LastUserPath_LastOfAll(wps, employeeId) == Len(wps)

\* line 316: userPaths[userPaths.length - 1]; 0 stands for undefined.
LastUserPath(wps, employeeId) ==
    LET userPaths == UserPaths(wps, employeeId)
    IN  IF Len(userPaths) = 0 THEN 0 ELSE userPaths[Len(userPaths)]

\* HasIncompletePath without the test of isEnd.
HasIncompletePath_NoEndCheck(wps, employeeId) ==
    LastUserPath(wps, employeeId) # 0

\* lines 317-318
HasIncompletePath(wps, employeeId) ==
    LET lastUserPath == LastUserPath(wps, employeeId)
    IN  /\ lastUserPath # 0
        /\ ~ wps[lastUserPath][Len(wps[lastUserPath])].isEnd

\* PathDecision with the start branch not guarded by hasIncompletePath.
PathDecision_StartUnchecked(wps, employeeId, parsedIsStart, parsedIsEnd) ==
    LET hasIncompletePath == HasIncompletePath(wps, employeeId)
        lastUserPath == LastUserPath(wps, employeeId)
        reject(m) == [status |-> 400, message |-> m, update |-> "none", path |-> 0]
    IN  IF parsedIsStart
        THEN [status |-> 201, message |-> "Waypoint added successfully",
              update |-> "newPath", path |-> 0]
        ELSE IF ~ hasIncompletePath
        THEN reject(IF parsedIsEnd THEN "Cannot end a path that hasn't started."
                    ELSE "No active path found. Start a new path with isStart: true before adding midpoints.")
        ELSE [status |-> 201, message |-> "Waypoint added successfully",
              update |-> "extend", path |-> lastUserPath]

\* PathDecision whose rejected start has already pushed its path.
PathDecision_PushThenCheck(wps, employeeId, parsedIsStart, parsedIsEnd) ==
    LET hasIncompletePath == HasIncompletePath(wps, employeeId)
        lastUserPath == LastUserPath(wps, employeeId)
        reject(m) == [status |-> 400, message |-> m, update |-> "none", path |-> 0]
    IN  IF parsedIsStart
        THEN IF hasIncompletePath
             THEN [status |-> 400, update |-> "newPath", path |-> 0, message |->
                   "Cannot start a new path. Your last path is not complete."]
             ELSE [status |-> 201, message |-> "Waypoint added successfully",
                   update |-> "newPath", path |-> 0]
        ELSE IF ~ hasIncompletePath
        THEN reject(IF parsedIsEnd THEN "Cannot end a path that hasn't started."
                    ELSE "No active path found. Start a new path with isStart: true before adding midpoints.")
        ELSE [status |-> 201, message |-> "Waypoint added successfully",
              update |-> "extend", path |-> lastUserPath]

\* PathDecision whose midpoint with no active path opens a path.
PathDecision_AutoStart(wps, employeeId, parsedIsStart, parsedIsEnd) ==
    LET hasIncompletePath == HasIncompletePath(wps, employeeId)
        lastUserPath == LastUserPath(wps, employeeId)
        reject(m) == [status |-> 400, message |-> m, update |-> "none", path |-> 0]
    IN  IF parsedIsStart /\ hasIncompletePath
        THEN reject("Cannot start a new path. Your last path is not complete.")
        ELSE IF parsedIsStart \/ (~ parsedIsEnd /\ ~ hasIncompletePath)
        THEN [status |-> 201, message |-> "Waypoint added successfully",
              update |-> "newPath", path |-> 0]
        ELSE IF ~ hasIncompletePath
        THEN reject("Cannot end a path that hasn't started.")
        ELSE [status |-> 201, message |-> "Waypoint added successfully",
              update |-> "extend", path |-> lastUserPath]

\* lines 320-353: the dispatch on the parsed flags. update is what the
\* handler does to its in-memory project: "newPath" (line 330), "extend"
\* (lines 340, 351, on path index `path`) or "none" (an early return).
PathDecision(wps, employeeId, parsedIsStart, parsedIsEnd) ==
    LET hasIncompletePath == HasIncompletePath(wps, employeeId)
        lastUserPath == LastUserPath(wps, employeeId)
        reject(m) == [status |-> 400, message |-> m, update |-> "none", path |-> 0]
    IN  IF parsedIsStart
        THEN IF hasIncompletePath
             THEN reject("Cannot start a new path. Your last path is not complete.")
             ELSE [status |-> 201, message |-> "Waypoint added successfully",
                   update |-> "newPath", path |-> 0]
        ELSE IF parsedIsEnd
        THEN IF ~ hasIncompletePath
             THEN reject("Cannot end a path that hasn't started.")
             ELSE [status |-> 201, message |-> "Waypoint added successfully",
                   update |-> "extend", path |-> lastUserPath]
        ELSE IF ~ hasIncompletePath
             THEN reject("No active path found. Start a new path with isStart: true before adding midpoints.")
             ELSE [status |-> 201, message |-> "Waypoint added successfully",
                   update |-> "extend", path |-> lastUserPath]

\* Save that puts a new path first (unshift for push).
Save_Unshift(stored, update, path, waypoint) ==
    IF update = "newPath" THEN <<(<<waypoint>>)>> \o stored
    ELSE IF update = "extend"
    THEN [stored EXCEPT ![path] = Append(@, waypoint)]
    ELSE stored

\* Save that writes only if the decision still holds of the stored project.
Save_Revalidate(stored, update, path, waypoint) ==
    IF update = "newPath"
    THEN IF \E i \in 1..Len(stored) :
                /\ stored[i][1].pathOwner = waypoint.pathOwner
                /\ ~ stored[i][Len(stored[i])].isEnd
         THEN stored
         ELSE Append(stored, <<waypoint>>)
    ELSE IF update = "extend"
    THEN IF stored[path][Len(stored[path])].isEnd
         THEN stored
         ELSE [stored EXCEPT ![path] = Append(@, waypoint)]
    ELSE stored

\* Save that moves the path it extends to the end of the collection.
Save_MoveToEnd(stored, update, path, waypoint) ==
    IF update = "newPath" THEN Append(stored, <<waypoint>>)
    ELSE IF update = "extend"
    THEN SubSeq(stored, 1, path - 1) \o SubSeq(stored, path + 1, Len(stored))
         \o <<Append(stored[path], waypoint)>>
    ELSE stored

\* Save whose new path is written over the collection's last path when that
\* path is another employee's (a write of a stale copy of the array).
Save_Overwrite(stored, update, path, waypoint) ==
    IF update = "newPath"
    THEN IF stored # <<>> /\ stored[Len(stored)][1].pathOwner # waypoint.pathOwner
         THEN [stored EXCEPT ![Len(stored)] = <<waypoint>>]
         ELSE Append(stored, <<waypoint>>)
    ELSE IF update = "extend"
    THEN [stored EXCEPT ![path] = Append(@, waypoint)]
    ELSE stored

\* lines 330, 340, 351 and 355: the push made on the in-memory project and
\* persisted by project.save(), applied to the stored path collection.
Save(stored, update, path, waypoint) ==
    IF update = "newPath" THEN Append(stored, <<waypoint>>)
    ELSE IF update = "extend"
    THEN [stored EXCEPT ![path] = Append(@, waypoint)]
    ELSE stored

\* The checks without the membership check of lines 191-195.
Precheck_NoMembership(projectId, employeeId, body) ==
    IF projectId \notin ProjectIds
    THEN [status |-> 404, message |-> "Project not found"]
    ELSE IF ~ body.complete \/ body.isStart = "null" \/ body.isEnd = "null"
    THEN [status |-> 400, message |-> "Missing required fields"]
    ELSE [status |-> 0, message |-> ""]

\* lines 185-288: the checks made before the path decision. 0 = passed.
Precheck(projectId, employeeId, body) ==
    IF projectId \notin ProjectIds
    THEN [status |-> 404, message |-> "Project not found"]
    ELSE IF employeeId \notin employees[projectId]
    THEN [status |-> 403, message |-> "Not assigned to this project"]
    ELSE IF ~ body.complete \/ body.isStart = "null" \/ body.isEnd = "null"
    THEN [status |-> 400, message |-> "Missing required fields"]
    ELSE [status |-> 0, message |-> ""]

\* The kind of a submission, by the order of the dispatch at lines 320-342.
Kind(parsedIsStart, parsedIsEnd) ==
    IF parsedIsStart THEN "Start" ELSE IF parsedIsEnd THEN "End" ELSE "Midpoint"

\* What a response without a waypoint carries in its place.
NoWaypoint == Waypoint("", FALSE, FALSE, 0)

\* A request slot with no save in flight.
Idle == [pc |-> "idle", projectId |-> "", update |-> "none", path |-> 0,
         waypoint |-> NoWaypoint]

\* The slot the next request takes: the first one with no save in flight
\* ("" when every slot is taken).
FreeSlot ==
    IF pending["r1"].pc = "idle" THEN "r1"
    ELSE IF pending["r2"].pc = "idle" THEN "r2" ELSE ""

\* The submission handled last: its project, employee and parsed flags, the
\* status and message of the response, the waypoint a 201 response carries
\* (line 357), and the project's path collection before the call. (report is
\* filled by getAllWaypointsEmployee only.)
Response(projectId, employeeId, isStart, isEnd, status, message, waypoint, before) ==
    [projectId |-> projectId, employeeId |-> employeeId,
     isStart |-> isStart, isEnd |-> isEnd,
     status |-> status, message |-> message,
     waypoint |-> waypoint, before |-> before, report |-> <<>>]

\* ------------------------------------------------ getProjectWaypoints
\* lines 408-412: the paths an employee is shown, those whose first waypoint
\* the employee created.
FilteredWaypoints(wps, userId) ==
    SelectSeq(wps, LAMBDA path : Len(path) > 0 /\ path[1].createdBy = userId)

\* ------------------------------------- getAllWaypointsEmployee, pieces
\* line 541: the projects Project.find returns, in the order of their creation.
ProjectOrder == <<"p1", "p2">>

\* line 550: project.waypoints.flat()
RECURSIVE Flat(_)
Flat(paths) == IF paths = <<>> THEN <<>> ELSE Head(paths) \o Flat(Tail(paths))

\* EmployeeWaypoints without the filter on createdBy.
EmployeeWaypoints_Unfiltered(wps, empId) == Flat(wps)

\* x put into a list of waypoints sorted by ascending timestamp.
RECURSIVE InsertByTimestamp(_, _)
InsertByTimestamp(sorted, x) ==
    IF sorted = <<>> THEN <<x>>
    ELSE IF Head(sorted).timestamp <= x.timestamp
    THEN <<Head(sorted)>> \o InsertByTimestamp(Tail(sorted), x)
    ELSE <<x>> \o sorted

RECURSIVE ByTimestamp(_)
ByTimestamp(wps) ==
    IF wps = <<>> THEN <<>>
    ELSE InsertByTimestamp(ByTimestamp(SubSeq(wps, 1, Len(wps) - 1)), wps[Len(wps)])

\* EmployeeWaypoints sorted by timestamp before the scan.
EmployeeWaypoints_ByTimestamp(wps, empId) ==
    ByTimestamp(SelectSeq(Flat(wps), LAMBDA wp : wp.createdBy = empId))

\* lines 549-551: the employee's waypoints of one project, in storage order.
EmployeeWaypoints(wps, empId) ==
    SelectSeq(Flat(wps), LAMBDA wp : wp.createdBy = empId)

\* lines 566-568 and 583-585: new Date(timestamp).toISOString().split("T")[0],
\* the UTC day of a timestamp. A day holds two values of the clock, and the
\* clock starts at the last value of its day: 0 | 1 2 | 3 4 | ...
DateOf(timestamp) == (timestamp + 1) \div 2

\* ClosedSegment dated by the first waypoint of the segment.
ClosedSegment_DatedByStart(projectId, currentSegment, waypoint) ==
    [projectId |-> projectId, segment |-> currentSegment,
     date |-> DateOf(currentSegment[1].timestamp),
     timestamp |-> currentSegment[1].timestamp]

\* ClosedSegment with the date of its first waypoint and the sort key of
\* its end waypoint.
ClosedSegment_StartDayEndKey(projectId, currentSegment, waypoint) ==
    [projectId |-> projectId, segment |-> currentSegment,
     date |-> DateOf(currentSegment[1].timestamp),
     timestamp |-> waypoint.timestamp]

\* lines 566-577: the segment pushed when an end waypoint closes it.
ClosedSegment(projectId, currentSegment, waypoint) ==
    [projectId |-> projectId, segment |-> currentSegment,
     date |-> DateOf(waypoint.timestamp), timestamp |-> waypoint.timestamp]

\* OpenSegment dated by the last waypoint of the segment.
OpenSegment_DatedByLast(projectId, currentSegment) ==
    [projectId |-> projectId, segment |-> currentSegment,
     date |-> DateOf(currentSegment[Len(currentSegment)].timestamp),
     timestamp |-> currentSegment[Len(currentSegment)].timestamp]

\* lines 583-594: the segment pushed when the stream ends with it still open.
OpenSegment(projectId, currentSegment) ==
    [projectId |-> projectId, segment |-> currentSegment,
     date |-> DateOf(currentSegment[1].timestamp),
     timestamp |-> currentSegment[1].timestamp]

\* Accumulate that keeps start waypoints only.
Accumulate_NoPush(currentSegment, waypoint) ==
    IF waypoint.isStart THEN <<waypoint>> ELSE currentSegment

\* Accumulate in which a start met while a segment is open is pushed onto it.
Accumulate_AppendStart(currentSegment, waypoint) ==
    IF Len(currentSegment) > 0 THEN Append(currentSegment, waypoint)
    ELSE IF waypoint.isStart THEN <<waypoint>>
    ELSE currentSegment

\* Accumulate that pushes a waypoint met with no segment open.
Accumulate_PushOrphans(currentSegment, waypoint) ==
    IF waypoint.isStart THEN <<waypoint>> ELSE Append(currentSegment, waypoint)

\* lines 555-560: the accumulator after the waypoint has been looked at.
Accumulate(currentSegment, waypoint) ==
    IF waypoint.isStart THEN <<waypoint>>
    ELSE IF Len(currentSegment) > 0 THEN Append(currentSegment, waypoint)
    ELSE currentSegment

\* Scan that does not clear the accumulator after it has pushed a closed
\* segment.
RECURSIVE Scan_NoReset(_, _, _, _)
Scan_NoReset(projectId, employeeWaypoints, idx, currentSegment) ==
    IF idx > Len(employeeWaypoints) THEN <<>>
    ELSE LET waypoint == employeeWaypoints[idx]
             acc == Accumulate(currentSegment, waypoint)
             isLast == idx = Len(employeeWaypoints)
             closes == waypoint.isEnd /\ Len(acc) > 0
             stillOpen == isLast /\ Len(acc) > 0
         IN  (IF closes THEN <<ClosedSegment(projectId, acc, waypoint)>> ELSE <<>>)
             \o (IF stillOpen THEN <<OpenSegment(projectId, acc)>> ELSE <<>>)
             \o Scan_NoReset(projectId, employeeWaypoints, idx + 1,
                             IF stillOpen THEN <<>> ELSE acc)

\* lines 553-597: the forEach over employeeWaypoints from index idx on, with
\* the accumulator currentSegment; the segments pushed, in order.
RECURSIVE Scan(_, _, _, _)
Scan(projectId, employeeWaypoints, idx, currentSegment) ==
    IF idx > Len(employeeWaypoints) THEN <<>>
    ELSE LET waypoint == employeeWaypoints[idx]
             acc == Accumulate(currentSegment, waypoint)
             isLast == idx = Len(employeeWaypoints)
             closes == waypoint.isEnd /\ Len(acc) > 0
             afterEnd == IF closes THEN <<>> ELSE acc
             stillOpen == isLast /\ Len(afterEnd) > 0
         IN  (IF closes THEN <<ClosedSegment(projectId, acc, waypoint)>> ELSE <<>>)
             \o (IF stillOpen THEN <<OpenSegment(projectId, afterEnd)>> ELSE <<>>)
             \o Scan(projectId, employeeWaypoints, idx + 1,
                     IF stillOpen THEN <<>> ELSE afterEnd)

\* lines 548-598 for one project.
ProjectSegments(projectId, wps, empId) ==
    Scan(projectId, EmployeeWaypoints(wps, empId), 1, <<>>)

\* lines 541-598: allSegments, over the projects the employee is assigned to.
RECURSIVE SegmentsOf(_, _, _, _)
SegmentsOf(order, stored, assigned, empId) ==
    IF order = <<>> THEN <<>>
    ELSE (IF empId \in assigned[Head(order)]
          THEN ProjectSegments(Head(order), stored[Head(order)], empId)
          ELSE <<>>)
         \o SegmentsOf(Tail(order), stored, assigned, empId)

AllSegments(stored, assigned, empId) ==
    SegmentsOf(ProjectOrder, stored, assigned, empId)

\* x put into a list sorted by descending timestamp, after every element
\* that does not sort after it (Array.prototype.sort is stable).
RECURSIVE InsertSegment(_, _)
InsertSegment(sorted, x) ==
    IF sorted = <<>> THEN <<x>>
    ELSE IF Head(sorted).timestamp >= x.timestamp
    THEN <<Head(sorted)>> \o InsertSegment(Tail(sorted), x)
    ELSE <<x>> \o sorted

\* SortSegments that leaves the segments in scan order.
SortSegments_ScanOrder(allSegments) == allSegments

\* line 601: allSegments.sort((a, b) => new Date(b.timestamp) - new Date(a.timestamp))
RECURSIVE SortSegments(_)
SortSegments(allSegments) ==
    IF allSegments = <<>> THEN <<>>
    ELSE InsertSegment(SortSegments(SubSeq(allSegments, 1, Len(allSegments) - 1)),
                       allSegments[Len(allSegments)])

\* lines 604-610: dateGroups, as the list of its keys in insertion order and
\* the segments pushed under each key.
RECURSIVE DateGroups(_, _)
DateGroups(segments, groups) ==
    IF segments = <<>> THEN groups
    ELSE LET segment == Head(segments)
             at == {i \in 1..Len(groups) : groups[i].date = segment.date}
         IN  DateGroups(Tail(segments),
                IF at = {}
                THEN Append(groups, [date |-> segment.date, segments |-> <<segment>>])
                ELSE LET i == CHOOSE j \in at : TRUE
                     IN  [groups EXCEPT ![i].segments = Append(@, segment)])

RECURSIVE InsertDate(_, _)
InsertDate(sorted, g) ==
    IF sorted = <<>> THEN <<g>>
    ELSE IF Head(sorted).date >= g.date
    THEN <<Head(sorted)>> \o InsertDate(Tail(sorted), g)
    ELSE <<g>> \o sorted

\* SortedDates with the comparison turned round: earliest date first.
RECURSIVE SortedDates_Ascending(_)
SortedDates_Ascending(groups) ==
    IF groups = <<>> THEN <<>>
    ELSE LET rest == SortedDates_Ascending(SubSeq(groups, 1, Len(groups) - 1))
             g == groups[Len(groups)]
             k == Cardinality({i \in 1..Len(rest) : rest[i].date <= g.date})
         IN  SubSeq(rest, 1, k) \o <<g>> \o SubSeq(rest, k + 1, Len(rest))

\* lines 613-615: Object.keys(dateGroups).sort((a, b) => new Date(b) - new Date(a)),
\* each key with its group.
RECURSIVE SortedDates(_)
SortedDates(groups) ==
    IF groups = <<>> THEN <<>>
    ELSE InsertDate(SortedDates(SubSeq(groups, 1, Len(groups) - 1)),
                    groups[Len(groups)])

\* ProjectsMap that opens an entry for every segment.
ProjectsMap_NoMerge(date, segments, entries) ==
    [i \in 1..Len(segments) |->
        [projectId |-> segments[i].projectId, date |-> date,
         segments |-> <<segments[i]>>]]

\* lines 618-629: projectsMap of one date, as the list of its values in
\* insertion order; each entry keeps the segments pushed under it.
RECURSIVE ProjectsMap(_, _, _)
ProjectsMap(date, segments, entries) ==
    IF segments = <<>> THEN entries
    ELSE LET segment == Head(segments)
             at == {i \in 1..Len(entries) : entries[i].projectId = segment.projectId}
         IN  ProjectsMap(date, Tail(segments),
                IF at = {}
                THEN Append(entries, [projectId |-> segment.projectId, date |-> date,
                                      segments |-> <<segment>>])
                ELSE LET i == CHOOSE j \in at : TRUE
                     IN  [entries EXCEPT ![i].segments = Append(@, segment)])

\* lines 616-659: result, each entry still with its date and its segments.
RECURSIVE ResultOf(_)
ResultOf(sortedDates) ==
    IF sortedDates = <<>> THEN <<>>
    ELSE ProjectsMap(Head(sortedDates).date, Head(sortedDates).segments, <<>>)
         \o ResultOf(Tail(sortedDates))

\* lines 546-659: the entries of the report of an employee over a store.
ReportEntries(stored, assigned, empId) ==
    ResultOf(SortedDates(DateGroups(SortSegments(AllSegments(stored, assigned, empId)),
                                    <<>>)))

\* lines 630-654: the display shape of a waypoint.
Display(wp) ==
    [isStart |-> wp.isStart, isEnd |-> wp.isEnd,
     timestamp |-> wp.timestamp, createdBy |-> wp.createdBy]

\* lines 621-655: an entry as the response holds it: the project and, per
\* segment, the list of its waypoints in display shape.
DisplayEntry(entry) ==
    [projectId |-> entry.projectId,
     waypoints |-> [i \in 1..Len(entry.segments) |->
                      [k \in 1..Len(entry.segments[i].segment) |->
                          Display(entry.segments[i].segment[k])]]]

\* lines 661-666: projects of the response.
Report(stored, assigned, empId) ==
    LET entries == ReportEntries(stored, assigned, empId)
    IN  [i \in 1..Len(entries) |-> DisplayEntry(entries[i])]

\* The users a report is asked for: the employees, and an empId no user has.
ReportUsers == Employees \cup {"e0"}

\* ---------------------------------------------------------------- Init
\* The projects have been created (createProject, line 44): no employee is
\* assigned and no waypoint is stored.
Init ==
    /\ employees = [p \in ProjectIds |-> {}]
    /\ waypoints = [p \in ProjectIds |-> <<>>]
    /\ now = 0
    /\ pending = [r \in Requests |-> Idle]
    /\ accepted = [p \in ProjectIds |-> [e \in Employees |-> <<>>]]
    /\ last = Response("", "", FALSE, FALSE, 0, "", NoWaypoint, <<>>)

\* ------------------------------------------------------------- actions
\* assignEmployee, lines 70-113. A missing empId, an unknown project or user
\* and an employee already assigned are answered 400 or 404 (lines 75-95) and
\* change nothing.
assignEmployee(projectId, empId) ==
    /\ employees' =
          IF \/ empId = ""
             \/ projectId \notin ProjectIds
             \/ empId \notin Employees
          THEN employees
          ELSE IF empId \in employees[projectId]
          THEN employees
          ELSE [employees EXCEPT ![projectId] = @ \cup {empId}]
    /\ UNCHANGED <<waypoints, now, pending, accepted, last>>

\* addWaypoint, lines 180-365, run from its read (line 185) to its save
\* (line 355) with no other handler in between. The flags are parsed
\* (lines 215-216) only after the project and the membership were checked.
addWaypoint(projectId, employeeId, body) ==
    LET pre == Precheck(projectId, employeeId, body)
        parsedIsStart == ParseFlag(body.isStart)
        parsedIsEnd == ParseFlag(body.isEnd)
    IN
    /\ TotalWaypoints < MaxWaypoints
    /\ IF pre.status # 0
       THEN /\ last' = Response(projectId, employeeId, FALSE, FALSE,
                                pre.status, pre.message, NoWaypoint, <<>>)
            /\ UNCHANGED <<waypoints, accepted>>
       ELSE LET project == waypoints[projectId]
                waypoint == Waypoint(employeeId, parsedIsStart, parsedIsEnd, now)
                d == PathDecision(project, employeeId, parsedIsStart, parsedIsEnd)
            IN  /\ waypoints' = [waypoints EXCEPT
                       ![projectId] = Save(project, d.update, d.path, waypoint)]
                /\ accepted' = IF d.status = 201
                               THEN [accepted EXCEPT ![projectId][employeeId] =
                                       Append(@, Kind(parsedIsStart, parsedIsEnd))]
                               ELSE accepted
                /\ last' = Response(projectId, employeeId, parsedIsStart, parsedIsEnd,
                                    d.status, d.message,
                                    IF d.status = 201 THEN waypoint ELSE NoWaypoint,
                                    project)
    /\ UNCHANGED <<employees, now, pending>>

\* addWaypoint up to the point where it has issued its save: the read of
\* line 185, the checks, the waypoint of lines 290-307 and the decision of
\* lines 311-353 on the project as read. A rejected submission is answered
\* here and changes nothing; an accepted one leaves its push waiting in a
\* request slot. (`last` records serial submissions only.)
beginAddWaypoint(r, projectId, employeeId, body) ==
    LET pre == Precheck(projectId, employeeId, body)
        parsedIsStart == ParseFlag(body.isStart)
        parsedIsEnd == ParseFlag(body.isEnd)
    IN
    /\ r = FreeSlot
    /\ TotalWaypoints < MaxWaypoints
    /\ IF pre.status # 0
       THEN UNCHANGED pending
       ELSE LET project == waypoints[projectId]
                waypoint == Waypoint(employeeId, parsedIsStart, parsedIsEnd, now)
                d == PathDecision(project, employeeId, parsedIsStart, parsedIsEnd)
            IN  IF d.status # 201
                THEN UNCHANGED pending
                ELSE pending' = [pending EXCEPT ![r] =
                        [pc |-> "saving", projectId |-> projectId,
                         update |-> d.update, path |-> d.path,
                         waypoint |-> waypoint]]
    /\ UNCHANGED <<employees, waypoints, now, accepted, last>>

\* lines 355-357: the save reaches the store and the request is answered 201.
saveAddWaypoint(r) ==
    LET job == pending[r]
        w == job.waypoint
    IN
    /\ job.pc = "saving"
    /\ waypoints' = [waypoints EXCEPT ![job.projectId] =
                        Save(@, job.update, job.path, w)]
    /\ accepted' = [accepted EXCEPT ![job.projectId][w.createdBy] =
                       Append(@, Kind(w.isStart, w.isEnd))]
    /\ pending' = [pending EXCEPT ![r] = Idle]
    /\ UNCHANGED <<employees, now, last>>

\* getAllWaypointsEmployee that saves each project it has read with its
\* waypoints flattened into one path.
getAllWaypointsEmployee_Saves(empId) ==
    /\ last' = [Response("", empId, FALSE, FALSE,
                         IF empId \in Employees THEN 200 ELSE 404,
                         IF empId \in Employees THEN "" ELSE "Employee not found",
                         NoWaypoint, <<>>)
                EXCEPT !.report = IF empId \in Employees
                                  THEN Report(waypoints, employees, empId)
                                  ELSE <<>>]
    /\ waypoints' = [p \in ProjectIds |->
                        IF empId \in employees[p] /\ waypoints[p] # <<>>
                        THEN <<Flat(waypoints[p])>>
                        ELSE waypoints[p]]
    /\ UNCHANGED <<employees, now, pending, accepted>>

\* getAllWaypointsEmployee that answers 404 when the result is empty.
getAllWaypointsEmployee_EmptyIs404(empId) ==
    LET found == empId \in Employees /\ Report(waypoints, employees, empId) # <<>>
    IN  /\ last' = [Response("", empId, FALSE, FALSE,
                             IF found THEN 200 ELSE 404,
                             IF found THEN "" ELSE "Employee not found",
                             NoWaypoint, <<>>)
                    EXCEPT !.report = IF found
                                      THEN Report(waypoints, employees, empId)
                                      ELSE <<>>]
        /\ UNCHANGED <<employees, waypoints, now, pending, accepted>>

\* getAllWaypointsEmployee, lines 530-674: answers 404 for an unknown empId,
\* else 200 with the report; it reads the projects and saves nothing.
getAllWaypointsEmployee(empId) ==
    /\ last' = [Response("", empId, FALSE, FALSE,
                         IF empId \in Employees THEN 200 ELSE 404,
                         IF empId \in Employees THEN "" ELSE "Employee not found",
                         NoWaypoint, <<>>)
                EXCEPT !.report = IF empId \in Employees
                                  THEN Report(waypoints, employees, empId)
                                  ELSE <<>>]
    /\ UNCHANGED <<employees, waypoints, now, pending, accepted>>

\* The wall clock advances.
Tick ==
    /\ now < MaxTime
    /\ now' = now + 1
    /\ UNCHANGED <<employees, waypoints, pending, accepted, last>>

Next ==
    \/ \E a \in Assignments : assignEmployee(a[1], a[2])
    \/ \E s \in Submissions : addWaypoint(s[1], s[2], s[3])
    \/ Tick

Spec == Init /\ [][Next]_vars

\* What a report shows is made by the assignments that succeed and the
\* submissions that pass the checks of lines 185-274.
ReportAssignments ==
    {a \in Assignments : a[1] \in ProjectIds /\ a[2] \in Employees}
ReportSubmissions ==
    {s \in Submissions : /\ s[1] \in ProjectIds
                         /\ s[3].complete
                         /\ s[3].isStart # "null"
                         /\ s[3].isEnd # "null"}

\* Serial submissions, with the employees' reports asked for between them.
NextReport ==
    \/ \E a \in ReportAssignments : assignEmployee(a[1], a[2])
    \/ \E s \in ReportSubmissions : addWaypoint(s[1], s[2], s[3])
    \/ \E u \in Employees : getAllWaypointsEmployee(u)
    \/ Tick

SpecReport == Init /\ [][NextReport]_vars

\* The requests that overlap are those of one project: a save touches the
\* project it read and no other.
ConcAssignments == {a \in Assignments : a[1] # "p2"}
ConcSubmissions == {s \in Submissions : s[1] # "p2"}

\* Submissions overlap: each is a read-and-decide step and a later save.
NextConc ==
    \/ \E a \in ConcAssignments : assignEmployee(a[1], a[2])
    \/ \E r \in Requests, s \in ConcSubmissions : beginAddWaypoint(r, s[1], s[2], s[3])
    \/ \E r \in Requests : saveAddWaypoint(r)
    \/ Tick

SpecConc == Init /\ [][NextConc]_vars

\* The requests of one employee, who works on both projects.
OwnAssignments == {a \in Assignments : a[2] = "e1"}
OwnSubmissions == {s \in Submissions : s[2] = "e1"}

\* Serial submissions of one employee, with reports asked for between them.
NextReadOnly ==
    \/ \E a \in OwnAssignments : assignEmployee(a[1], a[2])
    \/ \E s \in OwnSubmissions : addWaypoint(s[1], s[2], s[3])
    \/ \E u \in ReportUsers : getAllWaypointsEmployee(u)
    \/ Tick

SpecReadOnly == Init /\ [][NextReadOnly]_vars

\* Submissions overlap only when they come from different employees: no
\* request is begun while a save of the same employee is in flight.
NextConcDistinct ==
    \/ \E a \in ConcAssignments : assignEmployee(a[1], a[2])
    \/ \E r \in Requests, s \in ConcSubmissions :
          /\ \A q \in Requests :
                pending[q].pc = "saving" => pending[q].waypoint.createdBy # s[2]
          /\ beginAddWaypoint(r, s[1], s[2], s[3])
    \/ \E r \in Requests : saveAddWaypoint(r)
    \/ Tick

SpecConcDistinct == Init /\ [][NextConcDistinct]_vars

\* ------------------------------------------------ the scan on any document
\* The waypoints a stored document can hold for one employee: the schema
\* constrains neither the flags nor the timestamp of a waypoint.
StreamWaypoints ==
    {Waypoint("e1", s, t, ts) : s \in BOOLEAN, t \in BOOLEAN, ts \in 0..MaxTime}

\* The waypoint streams of at most MaxWaypoints waypoints.
Streams == UNION {[1..n -> StreamWaypoints] : n \in 0..MaxWaypoints}

\* A stream as a stored collection of paths (waypoints: [[WaypointSchema]]):
\* its first waypoint in one path, the rest in a second one.
StoredAs(stream) ==
    IF Len(stream) = 0 THEN <<>>
    ELSE IF Len(stream) = 1 THEN <<stream>>
    ELSE <<(<<stream[1]>>), Tail(stream)>>

\* Project p1 holds any document, and e1 is assigned to it.
InitScan ==
    /\ employees = [p \in ProjectIds |-> IF p = "p1" THEN {"e1"} ELSE {}]
    /\ waypoints \in {[p \in ProjectIds |-> IF p = "p1" THEN StoredAs(s) ELSE <<>>] :
                        s \in Streams}
    /\ now = MaxTime
    /\ pending = [r \in Requests |-> Idle]
    /\ accepted = [p \in ProjectIds |-> [e \in Employees |-> <<>>]]
    /\ last = Response("", "", FALSE, FALSE, 0, "", NoWaypoint, <<>>)

\* The report is asked for over the document as it is.
NextScan == \E u \in {"e1"} : getAllWaypointsEmployee(u)

SpecScan == InitScan /\ [][NextScan]_vars

\* ======================================================================
\* Properties. The definitions below speak of paths as the specification
\* does and use none of the operators of the handlers above.
\* ======================================================================
Max(S) == CHOOSE x \in S : \A y \in S : y <= x

\* Indices of the paths of a collection that belong to an employee.
OwnedPaths(wps, e) ==
    {i \in 1..Len(wps) : \A k \in 1..Len(wps[i]) : wps[i][k].pathOwner = e}

\* A path is open when its last waypoint is no end waypoint.
IsOpen(path) == ~ path[Len(path)].isEnd

OpenPaths(wps, e) == {i \in OwnedPaths(wps, e) : IsOpen(wps[i])}

\* The employee's last owned path exists and is open.
LastOwnedIsOpen(wps, e) ==
    /\ OwnedPaths(wps, e) # {}
    /\ IsOpen(wps[Max(OwnedPaths(wps, e))])

StartConflict == "Cannot start a new path. Your last path is not complete."
EndConflict == "Cannot end a path that hasn't started."
MidpointConflict == "No active path found. Start a new path with isStart: true before adding midpoints."
PathConflicts == {StartConflict, EndConflict, MidpointConflict}

\* The last submission passed the caller's checks and reached the decision.
Decided == last.status = 201 \/ (last.status = 400 /\ last.message \in PathConflicts)
Rejected == last.status = 400 /\ last.message \in PathConflicts
Accepted == last.status = 201

\* The response's waypoint is the candidate of the last submission.
IsCandidate(w) ==
    /\ w.createdBy = last.employeeId
    /\ w.pathOwner = last.employeeId
    /\ w.isStart = last.isStart
    /\ w.isEnd = last.isEnd
    /\ w.timestamp <= now

\* after is before with w appended as the new last element of path i.
ExtendedAt(before, after, i, w) ==
    /\ Len(after) = Len(before)
    /\ after[i] = Append(before[i], w)
    /\ \A j \in 1..Len(before) : j # i => after[j] = before[j]

\* C1: under serialized submissions every employee owns at most one open
\* path in each project.
C1_SingleOpenPath ==
    \A p \in ProjectIds, e \in Employees :
        Cardinality(OpenPaths(waypoints[p], e)) <= 1

\* An employee with a closed path and, after it, an open one.
C1_Witness ==
    \E p \in ProjectIds, e \in Employees :
        /\ Cardinality(OwnedPaths(waypoints[p], e)) >= 2
        /\ Cardinality(OpenPaths(waypoints[p], e)) = 1

\* C2: a Start submission that reaches the decision is rejected with the
\* start conflict exactly when the employee's last owned path exists and is
\* open; otherwise it is accepted and the project's collection is the one
\* before the call with one new path, holding only the candidate, at its end.
C2_StartDecision ==
    (Decided /\ last.isStart) =>
        IF LastOwnedIsOpen(last.before, last.employeeId)
        THEN /\ Rejected
             /\ last.message = StartConflict
             /\ waypoints[last.projectId] = last.before
        ELSE /\ Accepted
             /\ IsCandidate(last.waypoint)
             /\ waypoints[last.projectId] = Append(last.before, <<last.waypoint>>)

\* A second Start is refused while the employee's second path is open.
C2_Witness ==
    /\ Rejected /\ last.isStart
    /\ Cardinality(OwnedPaths(last.before, last.employeeId)) >= 2

\* C3: an End submission (isEnd, not isStart) that reaches the decision is
\* rejected with the end conflict exactly when the employee has no owned path
\* or the last one is closed; otherwise the candidate becomes the last element
\* of the employee's last owned path, which is then closed, and the number of
\* paths is unchanged.
C3_EndDecision ==
    (Decided /\ ~ last.isStart /\ last.isEnd) =>
        LET before == last.before
            after == waypoints[last.projectId]
            e == last.employeeId
        IN  IF ~ LastOwnedIsOpen(before, e)
            THEN /\ Rejected
                 /\ last.message = EndConflict
                 /\ after = before
            ELSE /\ Accepted
                 /\ IsCandidate(last.waypoint)
                 /\ ExtendedAt(before, after, Max(OwnedPaths(before, e)), last.waypoint)
                 /\ ~ IsOpen(after[Max(OwnedPaths(before, e))])

\* An End closes a path of three waypoints.
C3_Witness ==
    /\ Accepted /\ ~ last.isStart /\ last.isEnd
    /\ \E i \in 1..Len(waypoints[last.projectId]) :
          /\ Len(waypoints[last.projectId][i]) = 3
          /\ waypoints[last.projectId][i][3] = last.waypoint

\* C4: a Midpoint submission (neither flag) that reaches the decision is
\* rejected with the midpoint conflict exactly when the employee has no owned
\* path or the last one is closed; otherwise the candidate becomes the last
\* element of the employee's last owned path, which stays open, and the
\* number of paths is unchanged.
C4_MidpointDecision ==
    (Decided /\ ~ last.isStart /\ ~ last.isEnd) =>
        LET before == last.before
            after == waypoints[last.projectId]
            e == last.employeeId
        IN  IF ~ LastOwnedIsOpen(before, e)
            THEN /\ Rejected
                 /\ last.message = MidpointConflict
                 /\ after = before
            ELSE /\ Accepted
                 /\ IsCandidate(last.waypoint)
                 /\ ExtendedAt(before, after, Max(OwnedPaths(before, e)), last.waypoint)
                 /\ IsOpen(after[Max(OwnedPaths(before, e))])

\* A Midpoint goes to the employee's path although another employee's path
\* was started after it.
C4_Witness ==
    /\ Accepted /\ ~ last.isStart /\ ~ last.isEnd
    /\ Len(last.before) = 2
    /\ Max(OwnedPaths(last.before, last.employeeId)) = 1

\* C5: a submission rejected with a path conflict leaves the project's
\* collection as it was; an accepted one changes it by exactly one appended
\* waypoint (a new one-element path at the end, or one more element at the
\* tail of one path).
C5_RejectedNoMutation ==
    LET before == last.before
        after == waypoints[last.projectId]
    IN  /\ Rejected => after = before
        /\ Accepted =>
              \/ after = Append(before, <<last.waypoint>>)
              \/ \E i \in 1..Len(before) : ExtendedAt(before, after, i, last.waypoint)

\* An End is refused on a project whose only path is closed.
C5_Witness ==
    /\ Rejected /\ last.isEnd /\ ~ last.isStart
    /\ Len(last.before) = 1
    /\ ~ IsOpen(last.before[1])
    /\ waypoints[last.projectId] = last.before

\* The accepted submissions of one employee in one project, read from left to
\* right: (Start Midpoint* End)*, then possibly Start Midpoint*.
RECURSIVE ShapeOk(_, _)
ShapeOk(kinds, open) ==
    IF kinds = <<>> THEN TRUE
    ELSE IF Head(kinds) = "Start" THEN ~ open /\ ShapeOk(Tail(kinds), TRUE)
    ELSE IF Head(kinds) = "Midpoint" THEN open /\ ShapeOk(Tail(kinds), TRUE)
    ELSE open /\ ShapeOk(Tail(kinds), FALSE)

\* C6: for every employee and project the accepted submissions have the
\* shape (Start Midpoint* End)* optionally followed by Start Midpoint*.
C6_AcceptedShape ==
    \A p \in ProjectIds, e \in Employees : ShapeOk(accepted[p][e], FALSE)

\* C7: every stored path is non-empty, starts with a start waypoint, has no
\* start waypoint later, and has an end waypoint at most as its last element.
C7_PathWellFormed ==
    \A p \in ProjectIds : \A i \in 1..Len(waypoints[p]) :
        LET path == waypoints[p][i]
        IN  /\ Len(path) >= 1
            /\ path[1].isStart
            /\ \A k \in 2..Len(path) : ~ path[k].isStart
            /\ \A k \in 1..(Len(path) - 1) : ~ path[k].isEnd

\* A path start, midpoint, end is stored.
C7_Witness ==
    \E p \in ProjectIds : \E i \in 1..Len(waypoints[p]) :
        LET path == waypoints[p][i]
        IN  /\ Len(path) = 3
            /\ path[1].isStart /\ ~ path[1].isEnd
            /\ ~ path[2].isStart /\ ~ path[2].isEnd
            /\ path[3].isEnd

\* C8: no stored waypoint has both isStart and isEnd.
C8_FlagsExclusive ==
    \A p \in ProjectIds : \A i \in 1..Len(waypoints[p]) :
        \A k \in 1..Len(waypoints[p][i]) :
            ~ (waypoints[p][i][k].isStart /\ waypoints[p][i][k].isEnd)

\* C9: a save whose decision has gone stale is stored all the same. When a
\* Start (not also an end) is saved while its employee already has an open
\* path, the employee has two open paths afterwards; when a waypoint is saved
\* onto a path that has been closed since the read, the end waypoint is no
\* longer the path's last element.
C9_StaleSaveStored ==
    [][\A r \in Requests :
          (pending[r].pc = "saving" /\ pending'[r].pc = "idle") =>
              LET p == pending[r].projectId
                  w == pending[r].waypoint
                  i == pending[r].path
              IN  /\ ( /\ pending[r].update = "newPath"
                       /\ ~ w.isEnd
                       /\ OpenPaths(waypoints[p], w.pathOwner) # {} )
                     => Cardinality(OpenPaths(waypoints'[p], w.pathOwner)) >= 2
                  /\ ( /\ pending[r].update = "extend"
                       /\ ~ IsOpen(waypoints[p][i]) )
                     => /\ Len(waypoints'[p][i]) = Len(waypoints[p][i]) + 1
                        /\ waypoints'[p][i][Len(waypoints[p][i])].isEnd
      ]_vars

\* One employee has two open paths in one project.
C9_Witness ==
    \E p \in ProjectIds, e \in Employees :
        Cardinality(OpenPaths(waypoints[p], e)) >= 2

\* A waypoint is stored after an end waypoint.
C9_WaypointAfterEnd ==
    \E p \in ProjectIds : \E i \in 1..Len(waypoints[p]) :
        \E k \in 1..(Len(waypoints[p][i]) - 1) : waypoints[p][i][k].isEnd

IsPrefix(s, t) ==
    /\ Len(s) <= Len(t)
    /\ \A k \in 1..Len(s) : t[k] = s[k]

\* C10: every step leaves each project's list of paths a position-by-position
\* extension of what it was: no path is removed or moved, and every path
\* keeps its stored waypoints and grows only at its tail.
C10_AppendOnly ==
    [][\A p \in ProjectIds :
          /\ Len(waypoints[p]) <= Len(waypoints'[p])
          /\ \A i \in 1..Len(waypoints[p]) : IsPrefix(waypoints[p][i], waypoints'[p][i])
      ]_vars

\* A project holds two paths, the first of which has been extended.
C10_Witness ==
    \E p \in ProjectIds :
        /\ Len(waypoints[p]) = 2
        /\ Len(waypoints[p][1]) = 2

\* The paths of a collection owned by the employee, in collection order.
OwnedSeq(wps, e) ==
    SelectSeq(wps, LAMBDA path : \A k \in 1..Len(path) : path[k].pathOwner = e)

\* C11: the outcome of a submission by E is the outcome the same candidate
\* has on the project holding E's paths alone: same status and message, and
\* the same E-owned paths afterwards; and an accepted submission leaves each
\* path of another employee where and as it was.
C11_OwnerOnly ==
    Decided =>
        LET e == last.employeeId
            before == last.before
            after == waypoints[last.projectId]
            alone == OwnedSeq(before, e)
            d == PathDecision(alone, e, last.isStart, last.isEnd)
        IN  /\ d.status = last.status
            /\ d.message = last.message
            /\ OwnedSeq(after, e) =
                  Save(alone, d.update, d.path,
                       IF Accepted THEN last.waypoint
                       ELSE Waypoint(e, last.isStart, last.isEnd, now))
            /\ \A i \in 1..Len(before) :
                  i \notin OwnedPaths(before, e) => after[i] = before[i]
            /\ \A o \in Employees \ {e} : OwnedSeq(after, o) = OwnedSeq(before, o)

\* An End is accepted onto the employee's open path, which is followed by
\* a path of the other employee.
C11_Witness ==
    /\ Accepted /\ last.isEnd /\ ~ last.isStart
    /\ Len(last.before) = 2
    /\ OwnedPaths(last.before, last.employeeId) = {1}
    /\ \E o \in Employees \ {last.employeeId} : OwnedPaths(last.before, o) = {2}

\* The last response is a report.
Reported == last.status = 200

\* The entries behind the report made last, each with its date and segments.
LastEntries == ReportEntries(waypoints, employees, last.employeeId)

\* The waypoint lists of a list of segments.
SegmentLists(segments) == [i \in 1..Len(segments) |-> segments[i].segment]

C13_OpenSegment ==
    Reported =>
        \A p \in ProjectIds :
            LET owned == OwnedSeq(waypoints[p], last.employeeId)
                segments == ProjectSegments(p, waypoints[p], last.employeeId)
            IN  (owned # <<>> /\ IsOpen(owned[Len(owned)])) =>
                    LET path == owned[Len(owned)]
                        open == segments[Len(segments)]
                    IN  /\ Len(segments) = Len(owned)
                        /\ open.segment = path
                        /\ open.timestamp = path[1].timestamp
                        /\ open.date = DateOf(path[1].timestamp)

\* A report is made while the employee has an open path whose start and
\* last midpoint lie on different days.
C13_Witness ==
    /\ Reported
    /\ \E p \in ProjectIds :
          LET owned == OwnedSeq(waypoints[p], last.employeeId)
          IN  /\ last.employeeId \in employees[p]
              /\ owned # <<>>
              /\ IsOpen(owned[Len(owned)])
              /\ Len(owned[Len(owned)]) >= 2
              /\ DateOf(owned[Len(owned)][1].timestamp)
                    # DateOf(owned[Len(owned)][Len(owned[Len(owned)])].timestamp)

\* C14: when a report has been made, every segment the scan emits for the
\* employee that ends with an end waypoint has that waypoint's timestamp as
\* sort key and its UTC day as date.
C14_ClosedSegment ==
    Reported =>
        \A p \in ProjectIds :
            LET segments == ProjectSegments(p, waypoints[p], last.employeeId)
            IN  \A i \in 1..Len(segments) :
                    LET end == segments[i].segment[Len(segments[i].segment)]
                    IN  end.isEnd =>
                            /\ segments[i].timestamp = end.timestamp
                            /\ segments[i].date = DateOf(end.timestamp)

\* A report is made of a segment start, midpoint, end whose start lies on
\* the day before its end.
C14_Witness ==
    /\ Reported
    /\ \E p \in ProjectIds :
          LET segments == ProjectSegments(p, waypoints[p], last.employeeId)
          IN  /\ last.employeeId \in employees[p]
              /\ Len(segments) = 1
              /\ Len(segments[1].segment) = 3
              /\ segments[1].segment[3].isEnd
              /\ DateOf(segments[1].segment[1].timestamp) < segments[1].date

\* The stored paths with those of every employee but e removed.
Alone(stored, e) == [p \in ProjectIds |-> OwnedSeq(stored[p], e)]

\* C15: the report made for an employee holds only waypoints the employee
\* created, and is the report made over the store from which the other
\* employees' paths are removed.
C15_NonInterference ==
    Reported =>
        /\ \A i \in 1..Len(last.report) : \A j \in 1..Len(last.report[i].waypoints) :
              \A k \in 1..Len(last.report[i].waypoints[j]) :
                  last.report[i].waypoints[j][k].createdBy = last.employeeId
        /\ last.report = Report(Alone(waypoints, last.employeeId), employees,
                                last.employeeId)

\* A report is made for an employee whose two-waypoint path is stored before
\* a path of the other employee that was started in between.
C15_Witness ==
    /\ Reported
    /\ \E p \in ProjectIds :
          /\ Len(waypoints[p]) = 2
          /\ OwnedPaths(waypoints[p], last.employeeId) = {1}
          /\ Len(waypoints[p][1]) = 2
          /\ waypoints[p][2][1].timestamp <= waypoints[p][1][2].timestamp
          /\ Len(last.report) = 1

\* C16: the report made last lists the entries of LastEntries, and along
\* them the dates never increase.
C16_DatesDescending ==
    Reported =>
        LET entries == LastEntries
        IN  /\ last.report = [i \in 1..Len(entries) |-> DisplayEntry(entries[i])]
            /\ \A i, j \in 1..Len(entries) :
                  i < j => entries[i].date >= entries[j].date

\* A report has entries of two dates; the later date is that of the project
\* scanned first.
C16_Witness ==
    /\ Reported
    /\ Len(LastEntries) = 2
    /\ LastEntries[1].date > LastEntries[2].date
    /\ LastEntries[1].projectId = "p1"
    /\ LastEntries[2].projectId = "p2"

\* C17: among the entries of one date of the report made last, an entry
\* comes before the entries whose most recent segment is older than its own,
\* and the segments of an entry are in descending order of sort key.
C17_OrderWithinDate ==
    Reported =>
        LET entries == LastEntries
        IN  /\ \A i, j \in 1..Len(entries) :
                  (i < j /\ entries[i].date = entries[j].date) =>
                      \A k \in 1..Len(entries[j].segments) :
                          entries[i].segments[1].timestamp
                              >= entries[j].segments[k].timestamp
            /\ \A i \in 1..Len(entries) :
                  \A k, l \in 1..Len(entries[i].segments) :
                      k < l => entries[i].segments[k].timestamp
                                  >= entries[i].segments[l].timestamp

\* A report lists the project scanned second before the project scanned
\* first under one date, because its segment is the more recent.
C17_Witness ==
    /\ Reported
    /\ Len(LastEntries) = 2
    /\ LastEntries[1].date = LastEntries[2].date
    /\ LastEntries[1].projectId = "p2"
    /\ LastEntries[1].segments[1].timestamp > LastEntries[2].segments[1].timestamp

\* A report holds an entry whose two segments have different sort keys.
C17_TwoSegments ==
    /\ Reported
    /\ \E i \in 1..Len(LastEntries) :
          /\ Len(LastEntries[i].segments) = 2
          /\ LastEntries[i].segments[1].timestamp > LastEntries[i].segments[2].timestamp

\* How often x occurs in the sequence s.
Count(s, x) == Cardinality({i \in 1..Len(s) : s[i] = x})

\* C18: in the report made last no two entries have the same date and
\* project; every segment of an entry carries the entry's date and project;
\* every emitted segment occurs in the entry of its date and project as often
\* as it was emitted; and a project has as many entries as its segments have
\* dates.
C18_OneEntryPerDateAndProject ==
    Reported =>
        LET entries == LastEntries
            all == AllSegments(waypoints, employees, last.employeeId)
        IN  /\ \A i, j \in 1..Len(entries) :
                  (entries[i].date = entries[j].date
                     /\ entries[i].projectId = entries[j].projectId) => i = j
            /\ \A i \in 1..Len(entries) : \A k \in 1..Len(entries[i].segments) :
                  /\ entries[i].segments[k].date = entries[i].date
                  /\ entries[i].segments[k].projectId = entries[i].projectId
            /\ \A n \in 1..Len(all) :
                  \E i \in 1..Len(entries) :
                      /\ entries[i].date = all[n].date
                      /\ entries[i].projectId = all[n].projectId
                      /\ Count(entries[i].segments, all[n]) = Count(all, all[n])
            /\ \A i \in 1..Len(entries) : \A k \in 1..Len(entries[i].segments) :
                  Count(all, entries[i].segments[k]) > 0
            /\ \A p \in ProjectIds :
                  Cardinality({i \in 1..Len(entries) : entries[i].projectId = p})
                     = Cardinality({all[n].date : n \in {m \in 1..Len(all) :
                                                          all[m].projectId = p}})

\* A report has an entry of two segments of one project and one date: a
\* closed path start, end and the path started after it.
C18_Witness ==
    /\ Reported
    /\ \E i \in 1..Len(last.report) :
          /\ Len(last.report[i].waypoints) = 2
          /\ \E k \in 1..2 : Len(last.report[i].waypoints[k]) = 2

\* A report has two entries of one project, under two dates.
C18_TwoDates ==
    /\ Reported
    /\ \E i, j \in 1..Len(last.report) :
          /\ i # j
          /\ last.report[i].projectId = last.report[j].projectId
          /\ Len(last.report[j].waypoints[1]) = 2

\* The step is a run of getAllWaypointsEmployee: it leaves a new response,
\* which is that of a report.
ReportStep ==
    /\ last' # last
    /\ \/ last'.status = 200
       \/ last'.status = 404 /\ last'.message = "Employee not found"

\* C20: a run of the report leaves every project's paths, the assignments
\* and the clock as they were, and every submission is answered after it as
\* it would have been before it: same checks, same decision, same path.
C20_ReadOnly ==
    [][ReportStep =>
          /\ waypoints' = waypoints
          /\ employees' = employees
          /\ now' = now
          /\ \A s \in Submissions :
                /\ Precheck(s[1], s[2], s[3])' = Precheck(s[1], s[2], s[3])
                /\ s[1] \in ProjectIds =>
                      PathDecision(waypoints[s[1]], s[2],
                                   ParseFlag(s[3].isStart), ParseFlag(s[3].isEnd))'
                        = PathDecision(waypoints[s[1]], s[2],
                                       ParseFlag(s[3].isStart), ParseFlag(s[3].isEnd))
      ]_vars

\* A report over paths in both projects has been made, and submissions can
\* still follow.
C20_Witness ==
    /\ Reported
    /\ Len(last.report) >= 1
    /\ \A p \in ProjectIds : Len(waypoints[p]) = 1
    /\ TotalWaypoints < MaxWaypoints

\* The last response is that of a report, whatever its status.
ReportAnswered ==
    \/ last.status = 200
    \/ last.message \in {"Employee not found", "Failed to fetch waypoints"}

\* No project holds a waypoint created by e.
NoWaypointOf(e) ==
    \A p \in ProjectIds : \A i \in 1..Len(waypoints[p]) :
        \A k \in 1..Len(waypoints[p][i]) : waypoints[p][i][k].createdBy # e

\* C21: a report asked for by an employee of whom no project holds a
\* waypoint is answered 200 with an empty list of entries.
C21_EmptyReport ==
    (ReportAnswered /\ last.employeeId \in Employees /\ NoWaypointOf(last.employeeId))
        => (last.status = 200 /\ last.report = <<>>)

\* An employee assigned to a project that holds only the other employee's
\* waypoints is given an empty report.
C21_Witness ==
    /\ last.status = 200
    /\ last.report = <<>>
    /\ \E p \in ProjectIds :
          /\ last.employeeId \in employees[p]
          /\ waypoints[p] # <<>>
          /\ NoWaypointOf(last.employeeId)

\* An employee assigned to no project is given an empty report.
C21_NoProject ==
    /\ last.status = 200
    /\ last.report = <<>>
    /\ last.employeeId \in Employees
    /\ \A p \in ProjectIds : last.employeeId \notin employees[p]

\* ----------------------------------------------- streams, as the claims
\* speak of them. A stream is the list of an employee's waypoints of one
\* project in storage order; positions are indices into it.
RECURSIVE Joined(_)
Joined(lists) == IF lists = <<>> THEN <<>> ELSE Head(lists) \o Joined(Tail(lists))

OwnStream(p, e) == SelectSeq(Joined(waypoints[p]), LAMBDA w : w.createdBy = e)

EndBetween(stream, a, b) == \E j \in a..b : stream[j].isEnd

\* The last start at or before position k (0 if there is none).
RunStart(stream, k) ==
    LET starts == {s \in 1..k : stream[s].isStart}
    IN  IF starts = {} THEN 0 ELSE Max(starts)

\* Position k continues the run opened by the last start before it: no end
\* waypoint lies between that start and k.
InRun(stream, k) ==
    /\ RunStart(stream, k) # 0
    /\ ~ EndBetween(stream, RunStart(stream, k), k - 1)

\* A later start is met before the run of position k has ended.
Superseded(stream, k) ==
    /\ InRun(stream, k)
    /\ \E t \in (k + 1)..Len(stream) :
          stream[t].isStart /\ ~ EndBetween(stream, k, t - 1)

Kept(stream, k) == InRun(stream, k) /\ ~ Superseded(stream, k)

\* C22: in the report made last, a waypoint whose run is cut short by a later
\* start with no end in between is emitted in no segment: the segments hold
\* its value only as often as positions that are kept hold it.
C22_StartDiscards ==
    Reported =>
        \A p \in ProjectIds :
            LET stream == OwnStream(p, last.employeeId)
                emitted == Joined(SegmentLists(
                               ProjectSegments(p, waypoints[p], last.employeeId)))
            IN  \A k \in 1..Len(stream) :
                    Superseded(stream, k) =>
                        Count(emitted, stream[k])
                            = Cardinality({j \in 1..Len(stream) :
                                             Kept(stream, j) /\ stream[j] = stream[k]})

\* A report is made over start, midpoint, start: it shows the second start
\* alone, and neither of the first two waypoints.
C22_Witness ==
    /\ Reported
    /\ LET stream == OwnStream("p1", last.employeeId)
       IN  /\ Len(stream) = 3
           /\ stream[1].isStart /\ ~ stream[1].isEnd
           /\ ~ stream[2].isStart /\ ~ stream[2].isEnd
           /\ stream[3].isStart
           /\ stream[1] # stream[3]
           /\ Len(last.report) = 1
           /\ Len(last.report[1].waypoints) = 1
           /\ Len(last.report[1].waypoints[1]) = 1
           /\ last.report[1].waypoints[1][1].timestamp = stream[3].timestamp

\* The waypoints of the stream at its kept positions, in stream order.
RECURSIVE KeptFrom(_, _)
KeptFrom(stream, k) ==
    IF k > Len(stream) THEN <<>>
    ELSE (IF Kept(stream, k) THEN <<stream[k]>> ELSE <<>>) \o KeptFrom(stream, k + 1)

\* C23: in the report made last, the segments of a project, one after the
\* other, are the kept waypoints of the employee's stream in storage order,
\* and every segment is a block of consecutive waypoints of the stream,
\* whatever the timestamps.
C23_StorageOrder ==
    Reported =>
        \A p \in ProjectIds :
            LET stream == OwnStream(p, last.employeeId)
                lists == SegmentLists(ProjectSegments(p, waypoints[p], last.employeeId))
            IN  /\ Joined(lists) = KeptFrom(stream, 1)
                /\ \A i \in 1..Len(lists) :
                      \E a \in 1..Len(stream) :
                          /\ a + Len(lists[i]) - 1 <= Len(stream)
                          /\ lists[i] = SubSeq(stream, a, a + Len(lists[i]) - 1)

\* Overlapping submissions leave an employee's stream with a waypoint
\* stored after one of a later timestamp.
C23_NonMonotonicStored ==
    \E p \in ProjectIds, e \in Employees :
        \E j, k \in 1..Len(OwnStream(p, e)) :
            j < k /\ OwnStream(p, e)[j].timestamp > OwnStream(p, e)[k].timestamp

\* A report shows a segment whose waypoints carry decreasing timestamps, and
\* before it a segment recorded later.
C23_Witness ==
    /\ Reported
    /\ LET lists == SegmentLists(ProjectSegments("p1", waypoints["p1"], last.employeeId))
       IN  /\ Len(lists) = 2
           /\ Len(lists[2]) = 2
           /\ lists[2][1].timestamp > lists[2][2].timestamp
           /\ lists[1][1].timestamp > lists[2][1].timestamp
           /\ Len(last.report) >= 1

\* C28: in the report made last, every segment of a project is non-empty,
\* begins with a start waypoint and holds no other start waypoint; and a
\* waypoint that continues no run (it lies before the first start, or after
\* an end and before the next start) is emitted in no segment.
C28_SegmentsBeginWithStart ==
    Reported =>
        \A p \in ProjectIds :
            LET stream == OwnStream(p, last.employeeId)
                lists == SegmentLists(ProjectSegments(p, waypoints[p], last.employeeId))
            IN  /\ \A i \in 1..Len(lists) :
                      /\ Len(lists[i]) >= 1
                      /\ lists[i][1].isStart
                      /\ \A k \in 2..Len(lists[i]) : ~ lists[i][k].isStart
                /\ \A k \in 1..Len(stream) :
                      ~ InRun(stream, k) =>
                          Count(Joined(lists), stream[k])
                              = Cardinality({j \in 1..Len(stream) :
                                               Kept(stream, j) /\ stream[j] = stream[k]})

\* A report is made over midpoint, start and end, midpoint: it shows the
\* start-and-end waypoint alone.
C28_Witness ==
    /\ Reported
    /\ LET stream == OwnStream("p1", last.employeeId)
       IN  /\ Len(stream) = 3
           /\ ~ stream[1].isStart /\ ~ stream[1].isEnd
           /\ stream[2].isStart /\ stream[2].isEnd
           /\ ~ stream[3].isStart /\ ~ stream[3].isEnd
           /\ Len(last.report) = 1
           /\ last.report[1].waypoints = <<(<<Display(stream[2])>>)>>

\* C29: in the report made last, the segments of a project that do not end
\* with an end waypoint are at most one, which is then the last one emitted;
\* the segments are as many as the kept end waypoints of the stream, plus one
\* if the stream's last waypoint is kept and is not an end; so a stream whose
\* last waypoint is an end waypoint yields no open segment and that
\* waypoint's segment once.
C29_OneOpenSegmentLast ==
    Reported =>
        \A p \in ProjectIds :
            LET stream == OwnStream(p, last.employeeId)
                lists == SegmentLists(ProjectSegments(p, waypoints[p], last.employeeId))
                n == Len(stream)
                open == {i \in 1..Len(lists) : ~ lists[i][Len(lists[i])].isEnd}
            IN  /\ Cardinality(open) <= 1
                /\ open \subseteq {Len(lists)}
                /\ Len(lists) =
                      Cardinality({k \in 1..n : Kept(stream, k) /\ stream[k].isEnd})
                      + (IF n > 0 /\ Kept(stream, n) /\ ~ stream[n].isEnd THEN 1 ELSE 0)
                /\ (n > 0 /\ stream[n].isEnd) => open = {}

\* A report is made over start, midpoint, end: one segment, closed.
C29_Witness ==
    /\ Reported
    /\ LET stream == OwnStream("p1", last.employeeId)
       IN  /\ Len(stream) = 3
           /\ stream[1].isStart /\ ~ stream[1].isEnd
           /\ ~ stream[2].isStart /\ ~ stream[2].isEnd
           /\ stream[3].isEnd /\ ~ stream[3].isStart
           /\ Len(ProjectSegments("p1", waypoints["p1"], last.employeeId)) = 1
           /\ Len(last.report[1].waypoints) = 1

\* A report is made over start and end, start: a closed segment and, last,
\* an open one.
C29_ClosedThenOpen ==
    /\ Reported
    /\ LET lists == SegmentLists(ProjectSegments("p1", waypoints["p1"], last.employeeId))
       IN  /\ Len(lists) = 2
           /\ lists[1][Len(lists[1])].isEnd
           /\ ~ lists[2][Len(lists[2])].isEnd

\* The date groups behind the report made last, in insertion order, before
\* the date keys are sorted.
LastDateGroups ==
    DateGroups(SortSegments(AllSegments(waypoints, employees, last.employeeId)), <<>>)

\* C25: in the report made last, the date groups built from the sorted
\* segments are already in strictly descending order of date, and sorting
\* the date keys leaves them as they are.
C25_DateSortIsNoOp ==
    Reported =>
        LET groups == LastDateGroups
        IN  /\ \A i, j \in 1..Len(groups) : i < j => groups[i].date > groups[j].date
            /\ SortedDates(groups) = groups

\* A report has two date groups, and its segments were not scanned in the
\* order of their sort keys.
C25_Witness ==
    /\ Reported
    /\ Len(LastDateGroups) = 2
    /\ LET all == AllSegments(waypoints, employees, last.employeeId)
       IN  /\ Len(all) >= 2
           /\ all[1].timestamp < all[2].timestamp
    /\ Len(last.report) = 2

\* C24: the paths of a project are in the order of their starts: a path at a
\* lower index was not started after one at a higher index; an accepted
\* Start puts its path after all the others; and an accepted Midpoint or End
\* leaves every path at its index.
C24_PathStartOrder ==
    /\ \A p \in ProjectIds : \A i, j \in 1..Len(waypoints[p]) :
          i < j => waypoints[p][i][1].timestamp <= waypoints[p][j][1].timestamp
    /\ Accepted =>
          LET before == last.before
              after == waypoints[last.projectId]
          IN  /\ \A i \in 1..Len(before) : after[i][1] = before[i][1]
              /\ IF last.isStart
                 THEN /\ Len(after) = Len(before) + 1
                      /\ after[Len(after)][1] = last.waypoint
                 ELSE Len(after) = Len(before)

\* A Midpoint or End is accepted onto the first path of a project after
\* another employee has started the second one, later than the first.
C24_Witness ==
    /\ Accepted /\ ~ last.isStart
    /\ LET after == waypoints[last.projectId]
       IN  /\ Len(after) = 2
           /\ after[1][1].timestamp < after[2][1].timestamp
           /\ after[1][1].pathOwner # after[2][1].pathOwner
           /\ after[1][Len(after[1])] = last.waypoint
           /\ last.waypoint.timestamp >= after[2][1].timestamp

\* The waypoints e created that are stored in paths e owns, in project p.
StoredInOwnPaths(p, e) ==
    SelectSeq(Joined(OwnedSeq(waypoints[p], e)), LAMBDA w : w.createdBy = e)

\* C26: when the submissions that overlap come from different employees, no
\* save is lost: for each employee the project holds, in paths the employee
\* owns, one waypoint per saved submission of the employee; no employee has
\* two open paths; and every path starts with a start waypoint, has no other
\* start, and an end waypoint only as its last element.
C26_DistinctEmployeesRetained ==
    \A p \in ProjectIds :
        /\ \A e \in Employees :
              /\ Len(StoredInOwnPaths(p, e)) = Len(accepted[p][e])
              /\ Len(OwnStream(p, e)) = Len(accepted[p][e])
              /\ Cardinality(OpenPaths(waypoints[p], e)) <= 1
        /\ \A i \in 1..Len(waypoints[p]) :
              /\ waypoints[p][i][1].isStart
              /\ \A k \in 2..Len(waypoints[p][i]) : ~ waypoints[p][i][k].isStart
              /\ \A k \in 1..(Len(waypoints[p][i]) - 1) : ~ waypoints[p][i][k].isEnd

\* Both saves of two overlapping Starts are done: the path stored first
\* carries the later clock reading, and each path is its submitter's.
C26_Witness ==
    /\ \A r \in Requests : pending[r].pc = "idle"
    /\ \E p \in ProjectIds :
          /\ Len(waypoints[p]) = 2
          /\ waypoints[p][1][1].timestamp > waypoints[p][2][1].timestamp
          /\ waypoints[p][1][1].pathOwner # waypoints[p][2][1].pathOwner
          /\ \A e \in Employees : Len(accepted[p][e]) = 1

\* C27: in every state, also with overlapping submissions, each waypoint of
\* a path has the pathOwner and the createdBy of the path's first waypoint,
\* and the two are equal; so for each employee the paths addWaypoint selects,
\* the paths getProjectWaypoints shows and the waypoints the scan filters are
\* the same waypoints in the same order.
C27_OwnershipHomogeneous ==
    \A p \in ProjectIds :
        /\ \A i \in 1..Len(waypoints[p]) : \A k \in 1..Len(waypoints[p][i]) :
              /\ waypoints[p][i][k].pathOwner = waypoints[p][i][1].pathOwner
              /\ waypoints[p][i][k].createdBy = waypoints[p][i][1].createdBy
              /\ waypoints[p][i][k].pathOwner = waypoints[p][i][k].createdBy
        /\ \A e \in Employees :
              LET userPaths == UserPaths(waypoints[p], e)
                  selected == [n \in 1..Len(userPaths) |-> waypoints[p][userPaths[n]]]
              IN  /\ selected = FilteredWaypoints(waypoints[p], e)
                  /\ Joined(selected) = EmployeeWaypoints(waypoints[p], e)

\* Overlapping submissions of two employees have left a project whose first
\* path, of two waypoints, was started after the second path.
C27_Witness ==
    \E p \in ProjectIds :
        /\ Len(waypoints[p]) = 2
        /\ Len(waypoints[p][1]) = 2
        /\ waypoints[p][1][1].createdBy # waypoints[p][2][1].createdBy
        /\ waypoints[p][2][1].timestamp < waypoints[p][1][1].timestamp

\* The waypoints stored in a path collection.
StoredIn(wps) ==
    UNION {{wps[i][k] : k \in 1..Len(wps[i])} : i \in 1..Len(wps)}

\* C30: a submission to a project by an employee not assigned to it is
\* answered 403 "Not assigned to this project", whatever its body, and leaves
\* every path collection as it was; every waypoint a step stores was created
\* by an employee assigned to the project when the step was taken.
C30_UnassignedRejected ==
    [][ /\ (/\ last' # last
            /\ last'.projectId \in ProjectIds
            /\ last'.employeeId \notin employees[last'.projectId])
           => /\ last'.status = 403
              /\ last'.message = "Not assigned to this project"
              /\ waypoints' = waypoints
        /\ last'.status = 403 => waypoints' = waypoints
        /\ \A p \in ProjectIds :
              \A w \in StoredIn(waypoints'[p]) \ StoredIn(waypoints[p]) :
                  w.createdBy \in employees[p]
        /\ \A p \in ProjectIds :
              \A w \in StoredIn(waypoints'[p]) : w.createdBy \in employees'[p]
      ]_vars

\* The employee never assigned to p2 has just been refused there, while p2
\* holds waypoints of its assigned employee.
C30_Witness ==
    /\ last.status = 403
    /\ last.projectId = "p2"
    /\ last.employeeId = "e2"
    /\ Len(waypoints["p2"]) > 0
    /\ \A w \in StoredIn(waypoints["p2"]) : w.createdBy = "e1"

=============================================================================
